---- MODULE Spec2Model ----
(***************************************************************************)
(* Model of the tracking session of xmot/mot/kalman.py (classes Blob and   *)
(* MOT).  One step() call is followed through its phases: the frame        *)
(* counter, the predictions, the assignment with the update it drives,     *)
(* and the ageing/removal with the appending of the new blobs; pc is the   *)
(* position inside step().                                                 *)
(*                                                                         *)
(* Geometry is one-dimensional: a box is <<x1, x2>> and the Kalman state   *)
(* is <<cx, w, vx, vw>>, the x/w/vx/w_dot rows of the 8-dimensional state  *)
(* (the y/h rows behave in the same way).                                  *)
(*                                                                         *)
(* An IndexError raised inside step() leaves the call (pc = "raised");     *)
(* nothing in the sources catches it, so the session is not followed any   *)
(* further.                                                                *)
(*                                                                         *)
(* Python objects are shared between self.blobs, self.blobs_all and        *)
(* new_blobs; objs is the object store and the lists hold addresses into   *)
(* it, so that a mutation through one list is seen through the other.      *)
(***************************************************************************)
EXTENDS Integers, Sequences, FiniteSets, TLC

\* ---------------------------------------------------------------- bounds
MaxFrame  == 4    \* number of step() calls followed
MaxDets   == 4    \* detections handed over in the whole session

\* ------------------------------------------------------ program constants
UNDETECTION_THRESHOLD == 2
fixed_cost == 100

\* Detections sit at two places, fixed_cost apart: a detection costs 0 at
\* a blob that has not moved from its place and exactly fixed_cost at one
\* that has not moved from the other place; blobs that a correction has
\* moved give the costs in between and beyond.
Grid == fixed_cost

Cells == { 0, Grid }

VARIABLES
    pc,           \* position inside step(): "idle" between calls
    frame_id,     \* self.frame_id
    blobs,        \* self.blobs: sequence of addresses into objs
    blolen,       \* self.blolen
    blobs_all,    \* self.blobs_all: sequence of addresses into objs
    total_blobs,  \* self.total_blobs
    objs,         \* the Blob objects, by address (1..Len(objs))
    bbox,         \* argument bbox of the current call
    mask,         \* argument mask of the current call
    blob_ind,     \* local blob_ind of step(): 0-based column of each row
    new_blobs,    \* local new_blobs of step(): addresses
    ind_del,      \* local ind_del of step(): 0-based indices into blobs
    entry         \* history: the session as it was when the current call began

vars == <<pc, frame_id, blobs, blolen, blobs_all, total_blobs, objs,
          bbox, mask, blob_ind, new_blobs, ind_del, entry>>

\* ------------------------------------------------------------- helpers
Abs(x) == IF x < 0 THEN -x ELSE x

RECURSIVE SumSeq(_)
SumSeq(s) == IF s = <<>> THEN 0 ELSE Head(s) + SumSeq(Tail(s))

\* The boxes a detector can hand over: all of one width, on the grid.
BoxWidth == fixed_cost \div 10

DetBoxes == { << x, x + BoxWidth >> : x \in Cells }

RECURSIVE SeqsUpTo(_, _)
SeqsUpTo(S, n) ==
    IF n = 0 THEN { <<>> }
    ELSE SeqsUpTo(S, n - 1) \cup
         { Append(s, x) : s \in { t \in SeqsUpTo(S, n - 1) : Len(t) = n - 1 }, x \in S }

\* Masks are opaque payloads; each is named by the frame and position it came in.
MasksFor(f, n) == [ i \in 1..n |-> <<f, i - 1>> ]

\* ------------------------------------------------- xmot.mot.utils (boxes)
cor2cen(b) == << (b[1] + b[2]) \div 2, b[2] - b[1] >>

cen2cor(cx, w) == << cx - w \div 2, cx + w \div 2 >>

\* ------------------------------------------------------------ class Blob
\* (mutation of BlobInit: the velocities do not start at 0)
BlobInitMoving(idx, b, m) ==
    [ idx    |-> idx,
      bbox   |-> b,
      masks  |-> << m >>,
      dead   |-> 0,
      frames |-> << >>,
      state  |-> << cor2cen(b)[1], cor2cen(b)[2], 1, 0 >> ]

BlobInit(idx, b, m) ==
    [ idx    |-> idx,
      bbox   |-> b,
      masks  |-> << m >>,
      dead   |-> 0,
      frames |-> << >>,
      state  |-> << cor2cen(b)[1], cor2cen(b)[2], 0, 0 >> ]

\* cv.KalmanFilter.predict with the transition matrix F: x += vx, w += vw.
KalmanPredict(s) == << s[1] + s[3], s[2] + s[4], s[3], s[4] >>

BlobPredict(b) ==
    LET s == KalmanPredict(b.state)
    IN  [ b EXCEPT !.state = s, !.bbox = cen2cor(s[1], s[2]) ]

\* cv.KalmanFilter.correct: statePost = statePre + K (z - H statePre).  The
\* gain K is the library's floating-point computation from the noise
\* covariances (lines 51, 54).  On a measured component it is exactly 1/2 at
\* a blob's first correction and stays below 1; on the derivative it is 0 at
\* the first correction and stays below 1/2; both grow with the uncertainty
\* of the prediction.  In halves, <<gain on x and w, gain on vx and vw>>:
Gains == { << 1, 0 >>, << 2, 1 >> }

KalmanCorrect(s, z) ==
    { << s[1] + (k[1] * (z[1] - s[1])) \div 2,
         s[2] + (k[1] * (z[2] - s[2])) \div 2,
         s[3] + (k[2] * (z[1] - s[1])) \div 2,
         s[4] + (k[2] * (z[2] - s[2])) \div 2 >> : k \in Gains }

BlobCorrect(b, z, m) ==
    { [ b EXCEPT !.masks = Append(b.masks, m),
                 !.state = s,
                 !.bbox  = cen2cor(s[1], s[2]) ] : s \in KalmanCorrect(b.state, z) }

\* ------------------------------------------------------ MOT.__init__
\* (mutation of InitBlobs: total_blobs is incremented after the blob is made)
InitBlobsFromZero(bb, mm, i) ==
    [ k \in 1..i |-> [ BlobInit(k - 1, bb[k], mm[k]) EXCEPT !.frames = << 0 >> ] ]

RECURSIVE InitBlobs(_, _, _)
InitBlobs(bb, mm, i) ==
    \* the objects created by the loop for rows 1..i, in order
    IF i = 0 THEN << >>
    ELSE Append(InitBlobs(bb, mm, i - 1),
                [ BlobInit(i, bb[i], mm[i]) EXCEPT !.frames = << 0 >> ])

Init ==
    \E bb \in SeqsUpTo(DetBoxes, MaxDets) :
        /\ pc = "idle"
        /\ frame_id = 0
        /\ objs = InitBlobs(bb, MasksFor(0, Len(bb)), Len(bb))
        /\ blobs = [ i \in 1..Len(bb) |-> i ]
        /\ blobs_all = [ i \in 1..Len(bb) |-> i ]
        /\ blolen = Len(bb)
        /\ total_blobs = Len(bb)
        /\ bbox = << >>
        /\ mask = << >>
        /\ blob_ind = << >>
        /\ new_blobs = << >>
        /\ ind_del = << >>
        /\ entry = [ blobs |-> << >>, objs |-> << >>, blobs_all |-> << >>,
                     total_blobs |-> 0 ]

\* Every detection handed over so far left its mask in exactly one blob.
DetsSoFar == SumSeq([ a \in 1..Len(objs) |-> Len(objs[a].masks) ])

\* ------------------------------------------------------ MOT.step, line 111
\* (mutation of NextFrameId: the counter stands still while nothing is tracked)
NextFrameIdIfTracked == IF blolen = 0 THEN frame_id ELSE frame_id + 1

\* self.frame_id += 1
NextFrameId == frame_id + 1

StepBegin ==
    /\ pc = "idle"
    /\ frame_id < MaxFrame
    /\ \E bb \in SeqsUpTo(DetBoxes, MaxDets - DetsSoFar) :
          /\ bbox' = bb
          /\ mask' = MasksFor(frame_id + 1, Len(bb))
    /\ frame_id' = NextFrameId
    /\ entry' = [ blobs |-> blobs, objs |-> objs, blobs_all |-> blobs_all,
                  total_blobs |-> total_blobs ]
    /\ pc' = "pred"
    /\ UNCHANGED <<blobs, blolen, blobs_all, total_blobs, objs, blob_ind,
                   new_blobs, ind_del>>

\* ------------------------------------------------------ MOT.__pred
\* (mutation of PredObjs: blobs that missed their last frame are skipped)
PredObjsFreshOnly ==
    [ a \in 1..Len(objs) |->
        IF (\E i \in 1..blolen : blobs[i] = a) /\ objs[a].dead = 0
        THEN [ BlobPredict(objs[a]) EXCEPT !.frames = Append(objs[a].frames, frame_id) ]
        ELSE objs[a] ]

\* (mutation of PredObjs: line 147 is missing)
PredObjsNoFrames ==
    [ a \in 1..Len(objs) |->
        IF \E i \in 1..blolen : blobs[i] = a
        THEN BlobPredict(objs[a])
        ELSE objs[a] ]

\* (mutation of PredObjs: the loop runs over the log instead of the live list)
PredObjsWholeLog ==
    [ a \in 1..Len(objs) |->
        IF \E i \in 1..Len(blobs_all) : blobs_all[i] = a
        THEN [ BlobPredict(objs[a]) EXCEPT !.frames = Append(objs[a].frames, frame_id) ]
        ELSE objs[a] ]

PredObjs ==
    [ a \in 1..Len(objs) |->
        IF \E i \in 1..blolen : blobs[i] = a
        THEN [ BlobPredict(objs[a]) EXCEPT !.frames = Append(objs[a].frames, frame_id) ]
        ELSE objs[a] ]

Pred ==
    /\ pc = "pred"
    /\ objs' = PredObjs
    /\ pc' = "match"
    /\ UNCHANGED <<frame_id, blobs, blolen, blobs_all, total_blobs, bbox, mask,
                   blob_ind, new_blobs, ind_del, entry>>

\* ------------------------------------- xmot.mot.utils (cost evaluation)
\* Dissimilarity of a detection box and a blob's predicted bbox: centre
\* distance plus size difference.
costCalc(b, blob) ==
    Abs(cor2cen(b)[1] - cor2cen(blob.bbox)[1]) + Abs(cor2cen(b)[2] - cor2cen(blob.bbox)[2])

\* Square matrix over (detections + blobs); entry [i][j] (1-based here) is a
\* pair cost for a detection row and a blob column, fixed_cost elsewhere.
costMatrix(bb, bl, fc) ==
    [ i \in 1..(Len(bb) + Len(bl)) |->
        [ j \in 1..(Len(bb) + Len(bl)) |->
            IF i <= Len(bb) /\ j <= Len(bl)
            THEN costCalc(bb[i], objs[bl[j]])
            ELSE fc ] ]

\* ------------------------------- scipy.optimize.linear_sum_assignment
RECURSIVE PermSeqs(_)
PermSeqs(S) ==
    \* every ordering of the column indices in S
    IF S = {} THEN { << >> }
    ELSE UNION { { << x >> \o p : p \in PermSeqs(S \ {x}) } : x \in S }

\* Total cost of the assignment row i -> column p[i] (columns 0-based).
AssignCost(cost, p) == SumSeq([ i \in 1..Len(p) |-> cost[i][p[i] + 1] ])

\* The solver returns a minimum-cost assignment; which one among several of
\* equal cost is not part of its contract.
linear_sum_assignment(cost) ==
    LET all  == PermSeqs(0..(Len(cost) - 1))
        sums == { AssignCost(cost, p) : p \in all }
        best == CHOOSE m \in sums : \A x \in sums : m <= x
    IN  { p \in all : AssignCost(cost, p) = best }

\* ------------------------------------------------------ MOT.__hungarian
\* (mutation of Hungarian: every row takes its cheapest column on its own)
HungarianGreedy ==
    LET cost == costMatrix(bbox, blobs, fixed_cost)
        n    == Len(cost)
    IN  { [ i \in 1..n |->
              (CHOOSE j \in 1..n : \A k \in 1..n :
                  cost[i][j] < cost[i][k] \/ (cost[i][j] = cost[i][k] /\ j <= k)) - 1 ] }

\* (mutation of Hungarian: the rows keep their own column, whatever the costs)
HungarianIdentity ==
    { [ i \in 1..(Len(bbox) + Len(blobs)) |-> i - 1 ] }

Hungarian == linear_sum_assignment(costMatrix(bbox, blobs, fixed_cost))

\* ------------------------------------------------------ MOT.__update
\* (mutation of MatchesExisting: the last live blob is taken for a padding column)
MatchesExistingButLast(ind) == ind < blolen - 1

\* Whether the column assigned to a detection is an existing blob (line 164).
MatchesExisting(ind) == ind < blolen

\* (mutation of NewIdx: the blobs created earlier in the call are not counted)
NewIdxNoOffset(nb) == total_blobs + 1

\* The id given to the next blob created in this call (line 169).
NewIdx(nb) == total_blobs + Len(nb) + 1

\* The blob created for detection i (0-based), lines 169-170.
CreateBlob(i, nb) ==
    [ BlobInit(NewIdx(nb), bbox[i + 1], mask[i + 1]) EXCEPT !.frames = << frame_id >> ]

\* (mutation of CorrectBlob: line 166 is missing)
CorrectBlobKeepDead(b, i) == BlobCorrect(b, cor2cen(bbox[i + 1]), mask[i + 1])

\* The corrected blob, lines 165-166, for each gain the filter may apply.
CorrectBlob(b, i) ==
    { [ c EXCEPT !.dead = 0 ] : c \in BlobCorrect(b, cor2cen(bbox[i + 1]), mask[i + 1]) }

RECURSIVE UpdateLoop(_, _, _, _)
UpdateLoop(i, o, nb, p) ==
    \* rows i..boxlen-1 of the loop under the assignment p, from object store
    \* o and new_blobs nb; the set of <<object store, new_blobs>> it can end with
    IF i >= Len(bbox) THEN { << o, nb >> }
    ELSE LET ind == p[i + 1]
         IN  IF MatchesExisting(ind)
             THEN UNION { UpdateLoop(i + 1, [ o EXCEPT ![blobs[ind + 1]] = c ], nb, p)
                          : c \in CorrectBlob(o[blobs[ind + 1]], i) }
             ELSE UpdateLoop(i + 1, Append(o, CreateBlob(i, nb)), Append(nb, Len(o) + 1), p)

\* ------------------------------------------------------ MOT.step, lines 121-124
Match ==
    /\ pc = "match"
    /\ \E p \in Hungarian :
          /\ blob_ind' = p
          /\ \E r \in UpdateLoop(0, objs, << >>, p) :
                /\ objs' = r[1]
                /\ new_blobs' = r[2]
    /\ pc' = "del"
    /\ UNCHANGED <<frame_id, blobs, blolen, blobs_all, total_blobs, bbox, mask,
                   ind_del, entry>>

\* ------------------------------------------------------ MOT.__delBlobInd
\* The test of line 179 on the column assigned to a row past the detections.
IsUnassignedBlob(col, boxlen) == col < boxlen

RECURSIVE DelBlobIndLoop(_, _)
DelBlobIndLoop(i, acc) ==
    \* rows i..len(blob_ind)-1 (0-based)
    IF i >= Len(blob_ind) THEN acc
    ELSE DelBlobIndLoop(i + 1,
                        IF IsUnassignedBlob(blob_ind[i + 1], Len(bbox))
                        THEN Append(acc, blob_ind[i + 1])
                        ELSE acc)

\* (mutation of DelBlobInd: the loop of line 178 starts at row 0)
DelBlobIndAllRows == DelBlobIndLoop(0, << >>)

DelBlobInd == DelBlobIndLoop(Len(bbox), << >>)

\* ------------------------------------------------------ MOT.__delBlobs
RECURSIVE SortReverse(_)
SortReverse(s) ==
    IF s = << >> THEN << >>
    ELSE LET k == CHOOSE k \in 1..Len(s) : \A j \in 1..Len(s) : s[j] <= s[k]
         IN  << s[k] >> \o SortReverse([ j \in 1..(Len(s) - 1) |->
                                           IF j < k THEN s[j] ELSE s[j + 1] ])

\* list.pop(ind), ind 0-based
Pop(s, ind) == [ j \in 1..(Len(s) - 1) |-> IF j <= ind THEN s[j] ELSE s[j + 1] ]

\* (mutation of IsStale: >= instead of >)
IsStaleOffByOne(dead) == dead >= UNDETECTION_THRESHOLD

\* The removal test of line 192.
IsStale(dead) == dead > UNDETECTION_THRESHOLD

RECURSIVE DelBlobsLoop(_, _, _)
DelBlobsLoop(inds, bl, o) ==
    \* the loop over the sorted indices; raised is TRUE when self.blobs[ind]
    \* is out of range (IndexError), and the loop stops there
    IF inds = << >> THEN [ blobs |-> bl, objs |-> o, raised |-> FALSE ]
    ELSE LET ind == Head(inds)
         IN  IF ind >= Len(bl)
             THEN [ blobs |-> bl, objs |-> o, raised |-> TRUE ]
             ELSE LET a  == bl[ind + 1]
                      o2 == [ o EXCEPT ![a].dead = o[a].dead + 1 ]
                  IN  IF IsStale(o2[a].dead)
                      THEN DelBlobsLoop(Tail(inds), Pop(bl, ind), o2)
                      ELSE DelBlobsLoop(Tail(inds), bl, o2)

DelBlobs(ind) == DelBlobsLoop(SortReverse(ind), blobs, objs)

\* ------------------------------------------------------ MOT.step, lines 127-141
\* (mutation of LiveCount: blolen is taken before the new blobs are added)
LiveCountBeforeNew(bl) == Len(bl) - Len(new_blobs)

\* self.blolen = len(self.blobs), line 141
LiveCount(bl) == Len(bl)

Finish ==
    /\ pc = "del"
    /\ ~DelBlobs(DelBlobInd).raised
    /\ ind_del' = SortReverse(DelBlobInd)
    /\ objs' = DelBlobs(DelBlobInd).objs
    /\ blobs' = DelBlobs(DelBlobInd).blobs \o new_blobs
    /\ blobs_all' = blobs_all \o new_blobs
    /\ total_blobs' = total_blobs + Len(new_blobs)
    /\ blolen' = LiveCount(DelBlobs(DelBlobInd).blobs \o new_blobs)
    /\ pc' = "done"
    /\ UNCHANGED <<frame_id, bbox, mask, blob_ind, new_blobs, entry>>

\* self.blobs[ind] raises IndexError in __delBlobs: the exception leaves
\* step(), and lines 132-141 do not run.
FinishRaise ==
    /\ pc = "del"
    /\ DelBlobs(DelBlobInd).raised
    /\ ind_del' = SortReverse(DelBlobInd)
    /\ objs' = DelBlobs(DelBlobInd).objs
    /\ blobs' = DelBlobs(DelBlobInd).blobs
    /\ pc' = "raised"
    /\ UNCHANGED <<frame_id, blolen, blobs_all, total_blobs, bbox, mask,
                   blob_ind, new_blobs, entry>>

\* step() returns: its arguments and locals go out of scope.
NoEntry == [ blobs |-> << >>, objs |-> << >>, blobs_all |-> << >>, total_blobs |-> 0 ]

Return ==
    /\ pc = "done"
    /\ pc' = "idle"
    /\ bbox' = << >>
    /\ mask' = << >>
    /\ blob_ind' = << >>
    /\ new_blobs' = << >>
    /\ ind_del' = << >>
    /\ entry' = NoEntry
    /\ UNCHANGED <<frame_id, blobs, blolen, blobs_all, total_blobs, objs>>

Next ==
    \/ StepBegin
    \/ Pred
    \/ Match
    \/ Finish
    \/ FinishRaise
    \/ Return

Spec == Init /\ [][Next]_vars

\* =====================================================================
\* Properties.  While a call is in progress (and in the state it ends in),
\* entry is the session as the call found it, and bbox, mask, blob_ind,
\* new_blobs and ind_del are the call's arguments and locals.
\* =====================================================================
TypeOK ==
    /\ pc \in {"idle", "pred", "match", "del", "done", "raised"}
    /\ frame_id \in 0..MaxFrame
    /\ blolen \in Nat /\ total_blobs \in Nat
    /\ \A k \in 1..Len(blobs) : blobs[k] \in 1..Len(objs)
    /\ \A k \in 1..Len(blobs_all) : blobs_all[k] \in 1..Len(objs)

\* number of detections of the call, and of live blobs when it began
D == Len(bbox)

T0 == Len(entry.blobs)

\* the assignment has been applied
Updated == pc \in {"del", "done", "raised"}

\* the call has ended, by returning or by raising
Ended == pc \in {"done", "raised"}

Live(a) == \E k \in 1..Len(blobs) : blobs[k] = a

Logged(a) == \E k \in 1..Len(blobs_all) : blobs_all[k] = a

\* address of the blob that was at index j (0-based) of the live list
BlobAt(j) == entry.blobs[j + 1]

\* detections (0-based rows) assigned to an existing blob / to a padding column
MatchedDets == { i \in 0..(D - 1) : blob_ind[i + 1] < T0 }

UnmatchedDets == { i \in 0..(D - 1) : blob_ind[i + 1] >= T0 }

\* live blobs (0-based columns) assigned to a detection / to a padding row
MatchedBlobs == { j \in 0..(T0 - 1) : \E i \in 0..(D - 1) : blob_ind[i + 1] = j }

UnmatchedBlobs ==
    { j \in 0..(T0 - 1) : \E i \in D..(Len(blob_ind) - 1) : blob_ind[i + 1] = j }

\* frames gone by since blob a last received a detection (its creation included)
Missed(a) == frame_id - objs[a].masks[Len(objs[a].masks)][1]

\* every blob created so far, in creation order
Created == IF pc \in {"del", "raised"} THEN blobs_all \o new_blobs ELSE blobs_all

C2_UnmatchedBlobsAged ==
    pc = "done" =>
        \A j \in UnmatchedBlobs :
            objs[BlobAt(j)].dead = entry.objs[BlobAt(j)].dead + 1

\* ---------------------------------------------------------------- C3
\* C3: a blob that has gone k frames without a detection is live with
\* dead = k as long as k <= UNDETECTION_THRESHOLD, and has left the live
\* list by the end of the call in which k exceeds the threshold.
C3_MissesAgeThenRemove ==
    pc = "done" =>
        \A k \in 1..Len(blobs_all) :
            LET a == blobs_all[k]
            IN  IF Missed(a) <= UNDETECTION_THRESHOLD
                THEN Live(a) /\ objs[a].dead = Missed(a)
                ELSE ~Live(a)

\* ---------------------------------------------------------------- C4
\* C4: a call with zero detections ends normally, creates nothing (log and
\* id counter unchanged) and ages every blob that was live by 1.
C4_EmptyFrameAgesAll ==
    (Ended /\ D = 0) =>
        /\ pc = "done"
        /\ blobs_all = entry.blobs_all
        /\ total_blobs = entry.total_blobs
        /\ \A j \in 0..(T0 - 1) :
              objs[BlobAt(j)].dead = entry.objs[BlobAt(j)].dead + 1

\* ---------------------------------------------------------------- C5
\* C5: between calls (and when a call has ended) a blob of the log is live
\* exactly when its dead count is within 0..UNDETECTION_THRESHOLD: a count
\* equal to the threshold survives, a greater one has been removed.
C5_LiveIffWithinThreshold ==
    pc \in {"idle", "done", "raised"} =>
        \A k \in 1..Len(blobs_all) :
            Live(blobs_all[k]) <=> objs[blobs_all[k]].dead \in 0..UNDETECTION_THRESHOLD

\* a blob that was live at the threshold when the call began is removed by it
C5_Witness ==
    /\ pc = "done"
    /\ \E j \in 0..(T0 - 1) :
          /\ entry.objs[BlobAt(j)].dead = UNDETECTION_THRESHOLD
          /\ objs[BlobAt(j)].dead = UNDETECTION_THRESHOLD + 1
          /\ ~Live(BlobAt(j))

\* ---------------------------------------------------------------- C6
\* C6: a detection assigned to an existing blob corrects exactly that
\* blob, with its own measurement and mask, and leaves its dead count at 0;
\* the blobs no detection was assigned to are not corrected.
C6_MatchCorrectsItsBlob ==
    Updated =>
        /\ \A i \in MatchedDets :
              LET a == BlobAt(blob_ind[i + 1])
              IN  /\ objs[a].masks = Append(entry.objs[a].masks, mask[i + 1])
                  /\ objs[a].state \in KalmanCorrect(KalmanPredict(entry.objs[a].state),
                                                    cor2cen(bbox[i + 1]))
                  /\ objs[a].dead = 0
        /\ \A j \in (0..(T0 - 1)) \ MatchedBlobs :
              /\ objs[BlobAt(j)].masks = entry.objs[BlobAt(j)].masks
              /\ objs[BlobAt(j)].state = KalmanPredict(entry.objs[BlobAt(j)].state)

\* a blob that had missed frames is matched again, at some distance
C6_Witness ==
    /\ pc = "done"
    /\ \E i \in MatchedDets :
          /\ entry.objs[BlobAt(blob_ind[i + 1])].dead > 0
          /\ cor2cen(bbox[i + 1])[1] # KalmanPredict(entry.objs[BlobAt(blob_ind[i + 1])].state)[1]

\* ---------------------------------------------------------------- C7
\* C7: a blob corrected in a call is not among the blobs the call ages,
\* its dead count is not incremented and it stays in the live list.
C7_MatchedNotAgedNorRemoved ==
    Ended =>
        \A j \in MatchedBlobs :
            /\ \A k \in 1..Len(ind_del) : ind_del[k] # j
            /\ objs[BlobAt(j)].dead = 0
            /\ Live(BlobAt(j))

\* one blob is corrected while another one is removed in the same call
C7_Witness ==
    /\ pc = "done"
    /\ MatchedBlobs # {}
    /\ \E j \in 0..(T0 - 1) : ~Live(BlobAt(j))

\* ---------------------------------------------------------------- C8
\* the detections assigned to a padding column, in input order
UnmatchedDetSeq == SelectSeq([ i \in 1..D |-> i - 1 ], LAMBDA i : blob_ind[i + 1] >= T0)

\* C8: each detection assigned to a padding column spawns exactly one blob,
\* with dead = 0, its own mask alone and frames = [frame_id]; as many blobs
\* are created as there are such detections and all are live when the call
\* ends.
C8_UnmatchedDetsSpawn ==
    Ended =>
        /\ Len(new_blobs) = Len(UnmatchedDetSeq)
        /\ \A k \in 1..Len(new_blobs) :
              /\ objs[new_blobs[k]].dead = 0
              /\ objs[new_blobs[k]].masks = << mask[UnmatchedDetSeq[k] + 1] >>
              /\ objs[new_blobs[k]].frames = << frame_id >>
              /\ Live(new_blobs[k])

\* ---------------------------------------------------------------- C9
\* blobs, old or new, that received detection i in this call
CorrectedBy(i) ==
    { j \in 0..(T0 - 1) :
        objs[BlobAt(j)].masks = Append(entry.objs[BlobAt(j)].masks, mask[i + 1]) }

SpawnedBy(i) ==
    { k \in 1..Len(new_blobs) : objs[new_blobs[k]].masks = << mask[i + 1] >> }

\* C9: every detection corrects exactly one live blob or spawns exactly one
\* new blob, never both and never neither; no blob receives two detections
\* and no new blob stands for two detections.
C9_OneToOne ==
    Updated =>
        /\ \A i \in 0..(D - 1) :
              Cardinality(CorrectedBy(i)) + Cardinality(SpawnedBy(i)) = 1
        /\ \A j \in 0..(T0 - 1) :
              Len(objs[BlobAt(j)].masks) <= Len(entry.objs[BlobAt(j)].masks) + 1
        /\ \A k \in 1..Len(new_blobs) :
              \E i \in 0..(D - 1) : k \in SpawnedBy(i)

\* two detections compete for one blob: one corrects it, the other spawns
C9_Witness ==
    /\ pc = "done"
    /\ T0 = 1
    /\ D = 2
    /\ bbox[1] = bbox[2]
    /\ MatchedDets # {}

\* --------------------------------------------------------------- C10
Count(s, a) == Cardinality({ k \in 1..Len(s) : s[k] = a })

\* C10: the log holds no blob twice and holds every live blob; a call only
\* appends to it, and appends every blob it created exactly once.
C10_LogAppendOnly ==
    /\ \A k \in 1..Len(blobs_all) : Count(blobs_all, blobs_all[k]) = 1
    /\ pc \in {"idle", "done", "raised"} =>
          \A k \in 1..Len(blobs) : Logged(blobs[k])
    /\ Ended =>
          /\ SubSeq(blobs_all, 1, Len(entry.blobs_all)) = entry.blobs_all
          /\ \A k \in 1..Len(new_blobs) : Count(blobs_all, new_blobs[k]) = 1

\* --------------------------------------------------------------- C11
\* C11: the frame index is 0 after construction; every step() call
\* increments it by exactly 1 as it begins, whatever the detections and the
\* live blobs, and nothing else changes it: after n calls it is n.
C11_FrameIndexCountsCalls ==
    /\ frame_id = 0
    /\ [][ IF pc = "idle" /\ pc' # "idle"
           THEN frame_id' = frame_id + 1
           ELSE frame_id' = frame_id ]_vars

\* the third call of a session that never had a blob nor a detection
C11_Witness ==
    /\ pc = "done"
    /\ frame_id = 3
    /\ D = 0
    /\ T0 = 0
    /\ blobs_all = << >>

\* --------------------------------------------------------------- C12
\* C12: at every step boundary a live blob holds as many masks as frame
\* indices, the frames in which it was only predicted included.
C12_MaskPerFrame ==
    pc \in {"idle", "done"} =>
        \A k \in 1..Len(blobs) :
            Len(objs[blobs[k]].masks) = Len(objs[blobs[k]].frames)

\* --------------------------------------------------------------- C13
\* the frame indices first..last, in increasing order
FrameRange(first, last) == [ k \in 1..(last - first + 1) |-> first + k - 1 ]

\* C13: at every step boundary the frames of a live blob are the
\* consecutive frame indices from the frame it was created in (the frame
\* named by its first mask) up to the current frame index.
C13_FramesConsecutive ==
    pc \in {"idle", "done"} =>
        \A k \in 1..Len(blobs) :
            objs[blobs[k]].frames = FrameRange(objs[blobs[k]].masks[1][1], frame_id)

\* a blob created by a step() call has lived on through an unmatched frame
C13_Witness ==
    /\ pc = "done"
    /\ \E k \in 1..Len(blobs) :
          /\ objs[blobs[k]].masks[1][1] >= 1
          /\ Len(objs[blobs[k]].frames) >= 2
          /\ Len(objs[blobs[k]].masks) < Len(objs[blobs[k]].frames)

\* --------------------------------------------------------------- C14
\* the bbox the call's prediction gives the blob that was at index j
PredictedBox(j) == BlobPredict(entry.objs[BlobAt(j)]).bbox

\* the call has one detection per live blob, each on its blob's predicted bbox
StableFrame ==
    /\ D = T0
    /\ \E p \in PermSeqs(0..(T0 - 1)) :
          \A i \in 0..(D - 1) : bbox[i + 1] = PredictedBox(p[i + 1])

\* C14: a call whose detections are exactly the predicted boxes of the
\* live blobs, one each, returns with the same live list (same blobs, same
\* ids, same order), creates and removes nothing, and leaves every live
\* blob with dead = 0.
C14_StableContinuation ==
    (Ended /\ StableFrame) =>
        /\ pc = "done"
        /\ blobs = entry.blobs
        /\ new_blobs = << >>
        /\ blobs_all = entry.blobs_all
        /\ \A k \in 1..Len(blobs) :
              /\ objs[blobs[k]].idx = entry.objs[blobs[k]].idx
              /\ objs[blobs[k]].dead = 0

\* two blobs, one of which had missed a frame, are both found again
C14_Witness ==
    /\ pc = "done"
    /\ StableFrame
    /\ T0 >= 2
    /\ \E j \in 0..(T0 - 1) : entry.objs[BlobAt(j)].dead > 0

\* --------------------------------------------------------------- C15
\* the session is as the constructor left it
Constructed == pc = "idle" /\ frame_id = 0

\* C15: the constructor leaves one live blob per initial detection, in
\* input order (the k-th blob holds the k-th mask of frame 0 and a box the
\* detector gave), with ids 1..n, dead = 0, a single mask and frames = [0];
\* the log is the live list and both counters are n.
C15_ConstructorSpawnsAll ==
    Constructed =>
        /\ blobs = [ k \in 1..Len(objs) |-> k ]
        /\ blobs_all = blobs
        /\ total_blobs = Len(blobs)
        /\ blolen = Len(blobs)
        /\ \A k \in 1..Len(blobs) :
              /\ objs[blobs[k]].idx = k
              /\ objs[blobs[k]].dead = 0
              /\ objs[blobs[k]].masks = << << 0, k - 1 >> >>
              /\ objs[blobs[k]].frames = << 0 >>
              /\ objs[blobs[k]].bbox \in DetBoxes
              /\ objs[blobs[k]].state = << cor2cen(objs[blobs[k]].bbox)[1],
                                           cor2cen(objs[blobs[k]].bbox)[2], 0, 0 >>

\* a session constructed on several detections, two of them on the same box
C15_Witness ==
    /\ Constructed
    /\ Len(blobs) >= 3
    /\ objs[blobs[1]].bbox = objs[blobs[2]].bbox
    /\ objs[blobs[1]].bbox # objs[blobs[3]].bbox

\* --------------------------------------------------------------- C16
\* the matrix the call's assignment was computed on: the detections against
\* the predicted blobs, padded to a square with fixed_cost
EntryCost ==
    [ i \in 1..(D + T0) |->
        [ j \in 1..(D + T0) |->
            IF i <= D /\ j <= T0
            THEN costCalc(bbox[i], BlobPredict(entry.objs[BlobAt(j - 1)]))
            ELSE fixed_cost ] ]

\* total cost of rows 1..i under the correspondence p (columns 0-based)
RECURSIVE TotalCost(_, _, _)
TotalCost(cost, p, i) ==
    IF i = 0 THEN 0 ELSE cost[i][p[i] + 1] + TotalCost(cost, p, i - 1)

\* every one-to-one correspondence of n rows and n columns, for the matrix
\* sizes a session can come to (each live blob holds a detection's mask)
Correspondences == [ n \in 0..MaxDets |-> PermSeqs(0..(n - 1)) ]

FreshBlobs ==
    { j \in 0..(T0 - 1) : /\ Len(entry.objs[BlobAt(j)].frames) = 1
                          /\ Len(entry.objs[BlobAt(j)].masks) = 1 }

\* C17: the first prediction of a blob, made right after its creation,
\* leaves centre and size at the values taken from the initial box and the
\* velocities at 0.
C17_FirstPredictNoMotion ==
    pc = "match" =>
        \A j \in FreshBlobs :
            LET b0 == entry.objs[BlobAt(j)].bbox
                s  == objs[BlobAt(j)].state
            IN  /\ s[1] = cor2cen(b0)[1]
                /\ s[2] = cor2cen(b0)[2]
                /\ s[3] = 0
                /\ s[4] = 0
                /\ s = entry.objs[BlobAt(j)].state

\* two blobs created by a step() call, one at each place, get their first
\* prediction
C17_Witness ==
    /\ pc = "match"
    /\ \E j, k \in FreshBlobs :
          /\ entry.objs[BlobAt(j)].bbox # entry.objs[BlobAt(k)].bbox
          /\ entry.objs[BlobAt(j)].frames[1] >= 1

\* --------------------------------------------------------------- C18
Last(s) == s[Len(s)]

\* C18: the order of the phases of a call.  Every blob live when the call
\* began, stale or not, is predicted exactly once, under the new frame
\* index and before the assignment exists; a matched blob is corrected from
\* its predicted state; the blobs the call creates are not predicted; and
\* no blob is aged or removed before the update is over.
C18_PhaseOrder ==
    /\ pc \in {"match", "del", "done", "raised"} =>
          \A j \in 0..(T0 - 1) :
              /\ objs[BlobAt(j)].frames = Append(entry.objs[BlobAt(j)].frames, frame_id)
              /\ frame_id = Last(entry.objs[BlobAt(j)].frames) + 1
    /\ pc = "match" =>
          /\ blob_ind = << >>
          /\ \A j \in 0..(T0 - 1) :
                objs[BlobAt(j)].state = KalmanPredict(entry.objs[BlobAt(j)].state)
    /\ Updated =>
          /\ \A j \in MatchedBlobs :
                \E i \in MatchedDets :
                    /\ blob_ind[i + 1] = j
                    /\ objs[BlobAt(j)].state \in
                          KalmanCorrect(KalmanPredict(entry.objs[BlobAt(j)].state),
                                        cor2cen(bbox[i + 1]))
          /\ \A k \in 1..Len(new_blobs) :
                /\ objs[new_blobs[k]].frames = << frame_id >>
                /\ objs[new_blobs[k]].state =
                      << cor2cen(objs[new_blobs[k]].bbox)[1],
                         cor2cen(objs[new_blobs[k]].bbox)[2], 0, 0 >>
    /\ pc \in {"pred", "match", "del"} =>
          /\ blobs = entry.blobs
          /\ \A j \in 0..(T0 - 1) :
                \/ objs[BlobAt(j)].dead = entry.objs[BlobAt(j)].dead
                \/ pc = "del" /\ j \in MatchedBlobs /\ objs[BlobAt(j)].dead = 0

\* a call that predicts a stale blob which is on the move and corrects
\* another blob
C18_Witness ==
    /\ pc = "done"
    /\ \E j \in 0..(T0 - 1) : /\ entry.objs[BlobAt(j)].dead > 0
                               /\ entry.objs[BlobAt(j)].state[3] # 0
    /\ MatchedBlobs # {}

\* --------------------------------------------------------------- C19
Listed(j) == \E k \in 1..Len(ind_del) : ind_del[k] = j

\* C19: the indices listed for ageing are worked through in descending
\* order and each one still denotes the blob it denoted when the
\* assignment was computed: every listed index is that of a blob live at
\* that time, which is aged by 1 and removed exactly when its count then
\* exceeds UNDETECTION_THRESHOLD, and no blob that is not listed is aged
\* or removed.
C19_DescendingKeepsIndices ==
    Ended =>
        /\ \A k \in 1..(Len(ind_del) - 1) : ind_del[k] >= ind_del[k + 1]
        /\ \A k \in 1..Len(ind_del) :
              /\ ind_del[k] < T0
              /\ objs[BlobAt(ind_del[k])].dead = entry.objs[BlobAt(ind_del[k])].dead + 1
              /\ Live(BlobAt(ind_del[k])) <=>
                    ~(entry.objs[BlobAt(ind_del[k])].dead + 1 > UNDETECTION_THRESHOLD)
        /\ \A j \in 0..(T0 - 1) :
              ~Listed(j) =>
                  /\ Live(BlobAt(j))
                  /\ objs[BlobAt(j)].dead \in { entry.objs[BlobAt(j)].dead, 0 }

\* --------------------------------------------------------------- C20
\* C20: whatever minimum-cost assignment the solver returns, every index
\* that __delBlobInd returns is that of a blob that was live and received
\* no detection, and the call does not end in an IndexError.
C20_DelIndicesInRange ==
    Ended =>
        /\ pc # "raised"
        /\ \A k \in 1..Len(ind_del) :
              /\ ind_del[k] < T0
              /\ ind_del[k] \in UnmatchedBlobs

\* --------------------------------------------------------------- C21
\* blob a is in the log and no longer in the live list
Removed(a) == Logged(a) /\ ~Live(a)

\* C21: a removed blob has dead = UNDETECTION_THRESHOLD + 1, and no step of
\* any later call touches it: it stays out of the live list and its bbox,
\* state, masks, frames and dead count stay as they are.
C21_RemovedIsFrozen ==
    /\ [](\A a \in 1..Len(objs) :
            Removed(a) => objs[a].dead = UNDETECTION_THRESHOLD + 1)
    /\ [][ \A a \in 1..Len(objs) :
             Removed(a) =>
                 /\ objs'[a] = objs[a]
                 /\ \A k \in 1..Len(blobs') : blobs'[k] # a
                 /\ \E k \in 1..Len(blobs_all') : blobs_all'[k] = a ]_vars

\* a call has run to its end after the call that removed a blob, with
\* another blob still tracked
C21_Witness ==
    /\ pc = "done"
    /\ T0 >= 1
    /\ \E a \in 1..Len(objs) :
          /\ Removed(a)
          /\ Last(objs[a].frames) < frame_id

\* --------------------------------------------------------------- C22
\* C22: whenever no call is in progress (and when a call has ended),
\* blolen is the length of the live list, total_blobs the length of the
\* log, and the k-th blob of the log has id k; while a call predicts and
\* matches, blolen is still the length of the live list.
C22_CountersConsistent ==
    /\ pc \in {"idle", "done", "raised"} =>
          /\ blolen = Len(blobs)
          /\ total_blobs = Len(blobs_all)
          /\ \A k \in 1..Len(blobs_all) : objs[blobs_all[k]].idx = k
    /\ pc \in {"pred", "match", "del"} =>
          /\ blolen = Len(blobs)
          /\ blolen = T0

\* a call returns having removed a blob, some time after blobs were created
C22_Witness ==
    /\ pc = "done"
    /\ Len(blobs) < T0
    /\ total_blobs > Len(blobs)
    /\ total_blobs >= 2
====
